---- MODULE Spec2Model ----
(***************************************************************************)
(* IProtection (freqtrade/plugins/protections/iprotection.py): the window  *)
(* state a protection resolves from its configuration at construction      *)
(* (stop duration, lookback period, fixed daily unlock time), the display  *)
(* accessors over it, and the static helpers calculate_lock_end and        *)
(* calculate_timespan.                                                     *)
(*                                                                         *)
(* Python values are represented as follows.                               *)
(*   Optional[x]   <<>> for None, <<x>> for a value x                      *)
(*   str           a sequence of one-character strings                     *)
(*   datetime      a record year/month/day/hour/minute/second/microsecond  *)
(*                 /tzinfo; tzinfo is <<>> (naive) or <<m>>, a fixed       *)
(*                 offset of m minutes east of UTC (timezone.utc is <<0>>) *)
(*   timedelta     a record days/seconds/microseconds, normalised as       *)
(*                 Python normalises it                                    *)
(*   a call        [ok |-> TRUE, val |-> v] when it returns v,             *)
(*                 [ok |-> FALSE, err |-> e] when it raises e              *)
(***************************************************************************)
EXTENDS Integers, Sequences, FiniteSets, TLC

VARIABLES
    phase,                     \* "new", "constructed" or "failed" (__init__ raised)
    _protection_config,        \* self._protection_config
    timeframe,                 \* config["timeframe"]
    _stop_duration_candles,    \* self._stop_duration_candles
    _stop_duration,            \* self._stop_duration
    _lookback_period_candles,  \* self._lookback_period_candles
    _lookback_period,          \* self._lookback_period
    unlock_at,                 \* self.unlock_at
    clock,                     \* the instant the last datetime.now(timezone.utc) returned
    warnings,                  \* number of logger.warning records emitted
    last                       \* the last call: its name, its arguments, its outcome

vars == <<phase, _protection_config, timeframe, _stop_duration_candles, _stop_duration,
          _lookback_period_candles, _lookback_period, unlock_at, clock, warnings, last>>

----------------------------------------------------------------------------
(* Python values *)

None == <<>>

Some(x) == <<x>>

Return(v) == [ok |-> TRUE, val |-> v]

Raise(e) == [ok |-> FALSE, err |-> e]

----------------------------------------------------------------------------
(* str: formatting and parsing of the decimal numbers the code renders *)

DigitChars == <<"0", "1", "2", "3", "4", "5", "6", "7", "8", "9">>

IsDigit(c) == \E d \in 1..10 : DigitChars[d] = c

DigitVal(c) == (CHOOSE d \in 1..10 : DigitChars[d] = c) - 1

RECURSIVE StrNat(_)
StrNat(n) == IF n < 10 THEN <<DigitChars[n + 1]>>
             ELSE StrNat(n \div 10) \o <<DigitChars[(n % 10) + 1]>>

\* f"{n}" of an int
Str(n) == IF n < 0 THEN <<"-">> \o StrNat(-n) ELSE StrNat(n)

\* "%H" and "%M" of strftime: two digits, zero padded
Fmt2(n) == <<DigitChars[(n \div 10) + 1], DigitChars[(n % 10) + 1]>>

RECURSIVE ParseNat(_)
ParseNat(s) == IF Len(s) = 0 THEN 0
               ELSE 10 * ParseNat(SubSeq(s, 1, Len(s) - 1)) + DigitVal(s[Len(s)])

AllDigits(s) == \A i \in 1..Len(s) : IsDigit(s[i])

Contains(s, sub) ==
    \E i \in 1..(Len(s) - Len(sub) + 1) : SubSeq(s, i, i + Len(sub) - 1) = sub

----------------------------------------------------------------------------
(* datetime and timedelta *)

Dt(y, mo, d, h, mi, s, us, tz) ==
    [year |-> y, month |-> mo, day |-> d, hour |-> h, minute |-> mi,
     second |-> s, microsecond |-> us, tzinfo |-> tz]

UTC == Some(0)

IsLeap(y) == y % 4 = 0 /\ (y % 100 # 0 \/ y % 400 = 0)

DaysInMonth(y, m) ==
    IF m = 2 THEN (IF IsLeap(y) THEN 29 ELSE 28)
    ELSE IF m \in {4, 6, 9, 11} THEN 30 ELSE 31

DaysBeforeYear(y) ==
    LET p == y - 1 IN p * 365 + (p \div 4) - (p \div 100) + (p \div 400)

RECURSIVE DaysBeforeMonth(_, _)
DaysBeforeMonth(y, m) ==
    IF m = 1 THEN 0 ELSE DaysBeforeMonth(y, m - 1) + DaysInMonth(y, m - 1)

\* date.toordinal()
ToOrdinal(y, m, d) == DaysBeforeYear(y) + DaysBeforeMonth(y, m) + d

\* date.fromordinal(n), for the years the model reaches
FromOrdinal(n) ==
    LET y == CHOOSE yy \in 1990..2060 :
                 DaysBeforeYear(yy) < n /\ n <= DaysBeforeYear(yy + 1)
        r == n - DaysBeforeYear(y)
        m == CHOOSE mm \in 1..12 :
                 DaysBeforeMonth(y, mm) < r /\ r <= DaysBeforeMonth(y, mm) + DaysInMonth(y, mm)
    IN  [year |-> y, month |-> m, day |-> r - DaysBeforeMonth(y, m)]

\* timedelta(days, seconds, microseconds): Python's normalisation
\* (0 <= microseconds < 10^6, 0 <= seconds < 86400, days of either sign)
timedelta(d, s, us) ==
    LET s2 == s + (us \div 1000000)
    IN  [days |-> d + (s2 \div 86400), seconds |-> s2 % 86400,
         microseconds |-> us % 1000000]

SecondOfDay(dt) == dt.hour * 3600 + dt.minute * 60 + dt.second

\* datetime.__sub__: the wall-clock difference, corrected by the two offsets;
\* a naive and an aware datetime cannot be subtracted
DatetimeSub(a, b) ==
    LET base == timedelta(ToOrdinal(a.year, a.month, a.day) - ToOrdinal(b.year, b.month, b.day),
                          SecondOfDay(a) - SecondOfDay(b),
                          a.microsecond - b.microsecond)
    IN  IF a.tzinfo = b.tzinfo THEN Return(base)
        ELSE IF a.tzinfo = None \/ b.tzinfo = None THEN Raise("TypeError")
        ELSE Return(timedelta(base.days,
                              base.seconds + (b.tzinfo[1] - a.tzinfo[1]) * 60,
                              base.microseconds))

\* datetime.__gt__: instants are compared; naive against aware raises
DatetimeGt(a, b) ==
    LET d == DatetimeSub(a, b)
    IN  IF ~d.ok THEN d
        ELSE Return(d.val.days > 0
                    \/ (d.val.days = 0 /\ (d.val.seconds > 0 \/ d.val.microseconds > 0)))

\* datetime + timedelta(minutes=n): tzinfo is kept
DatetimeAddMinutes(dt, n) ==
    LET t == timedelta(ToOrdinal(dt.year, dt.month, dt.day),
                       SecondOfDay(dt) + n * 60, dt.microsecond)
        ymd == FromOrdinal(t.days)
    IN  Dt(ymd.year, ymd.month, ymd.day, t.seconds \div 3600, (t.seconds % 3600) \div 60,
           t.seconds % 60, t.microseconds, dt.tzinfo)

\* datetime.time() < datetime.time(): naive wall-clock times, compared field by field
TimeLess(a, b) ==
    \/ a.hour < b.hour
    \/ a.hour = b.hour /\ a.minute < b.minute
    \/ a.hour = b.hour /\ a.minute = b.minute /\ a.second < b.second
    \/ a.hour = b.hour /\ a.minute = b.minute /\ a.second = b.second
       /\ a.microsecond < b.microsecond

\* datetime.replace(day=d): raises when the month has no such day
ReplaceDay(dt, d) ==
    IF d \in 1..DaysInMonth(dt.year, dt.month)
    THEN Return([dt EXCEPT !.day = d])
    ELSE Raise("ValueError")

\* datetime.strptime(s, "%H:%M"): one or two digits, a colon, one or two digits,
\* the hour at most 23 and the minute at most 59; the date is 1900-01-01
Strptime(s) ==
    LET colons == {i \in 1..Len(s) : s[i] = ":"}
    IN  IF Cardinality(colons) # 1 THEN Raise("ValueError")
        ELSE LET c == CHOOSE i \in colons : TRUE
                 hs == SubSeq(s, 1, c - 1)
                 ms == SubSeq(s, c + 1, Len(s))
             IN  IF /\ Len(hs) \in {1, 2} /\ Len(ms) \in {1, 2}
                    /\ AllDigits(hs) /\ AllDigits(ms)
                    /\ ParseNat(hs) <= 23 /\ ParseNat(ms) <= 59
                 THEN Return(Dt(1900, 1, 1, ParseNat(hs), ParseNat(ms), 0, 0, None))
                 ELSE Raise("ValueError")

\* datetime.strftime("%H:%M")
Strftime(dt) == Fmt2(dt.hour) \o <<":">> \o Fmt2(dt.minute)

----------------------------------------------------------------------------
(* Collaborators of the class that live in other modules of the package *)

\* freqtrade.exchange.timeframe_to_minutes: minutes per candle; fails on a
\* malformed timeframe string
timeframe_to_minutes(tf) ==
    IF tf = "1m" THEN Return(1)
    ELSE IF tf = "5m" THEN Return(5)
    ELSE IF tf = "1h" THEN Return(60)
    ELSE Raise("ValueError")

\* freqtrade.misc.plural(num, singular, plural)
plural(num, singular, plural_form) == IF num = 1 THEN singular ELSE plural_form

----------------------------------------------------------------------------
(* protection_config: a record of the five optional keys the class reads *)

EmptyConfig ==
    [stop_duration_candles |-> None, stop_duration |-> None,
     lookback_period_candles |-> None, lookback_period |-> None, unlock_at |-> None]

\* key in protection_config
HasKey(pc, key) == pc[key] # None

\* protection_config.get(key, default)
Get(pc, key, default) == IF HasKey(pc, key) THEN pc[key][1] ELSE default

\* the truth value of an Optional[int]: None and 0 are false
Truthy(opt) == opt # None /\ opt[1] # 0

\* str(protection_config.get("unlock_at"))
UnlockAtText(pc) ==
    IF HasKey(pc, "unlock_at") THEN pc.unlock_at[1] ELSE <<"N", "o", "n", "e">>

DefaultStopDuration == 60

DefaultLookbackPeriod == 60

----------------------------------------------------------------------------
(* IProtection *)

\* __init__, lines 39-43: the stop duration in candles and in minutes
StopDurationBadKey(pc, tf_in_min) ==
    IF HasKey(pc, "stop_duration")
    THEN [candles |-> None, minutes |-> Get(pc, "stop_duration", DefaultStopDuration)]
    ELSE IF HasKey(pc, "stop_duration_candles")
    THEN [candles |-> Some(Get(pc, "stop_duration_candles", 1)),
          minutes |-> tf_in_min * Get(pc, "stop_duration_candles", 1)]
    ELSE [candles |-> None, minutes |-> DefaultStopDuration]

StopDuration(pc, tf_in_min) ==
    IF HasKey(pc, "stop_duration_candles")
    THEN [candles |-> Some(Get(pc, "stop_duration_candles", 1)),
          minutes |-> tf_in_min * Get(pc, "stop_duration_candles", 1)]
    ELSE [candles |-> None, minutes |-> Get(pc, "stop_duration", DefaultStopDuration)]

\* __init__, lines 44-48: the lookback period in candles and in minutes
LookbackPeriodFromStopKeys(pc, tf_in_min) ==
    IF HasKey(pc, "lookback_period_candles")
    THEN [candles |-> Some(Get(pc, "lookback_period_candles", 1)),
          minutes |-> tf_in_min * Get(pc, "lookback_period_candles", 1)]
    ELSE [candles |-> None, minutes |-> Get(pc, "stop_duration", DefaultLookbackPeriod)]

LookbackPeriod(pc, tf_in_min) ==
    IF HasKey(pc, "lookback_period_candles")
    THEN [candles |-> Some(Get(pc, "lookback_period_candles", 1)),
          minutes |-> tf_in_min * Get(pc, "lookback_period_candles", 1)]
    ELSE [candles |-> None, minutes |-> Get(pc, "lookback_period", DefaultLookbackPeriod)]

Candle == <<" ", "c", "a", "n", "d", "l", "e">>

Candles == <<" ", "c", "a", "n", "d", "l", "e", "s">>

Minute == <<" ", "m", "i", "n", "u", "t", "e">>

Minutes == <<" ", "m", "i", "n", "u", "t", "e", "s">>

\* the f-strings of stop_duration_str and lookback_period_str
DurationStr(candles, minutes) ==
    IF Truthy(candles)
    THEN Str(candles[1]) \o plural(candles[1], Candle, Candles)
    ELSE Str(minutes) \o plural(minutes, Minute, Minutes)

stop_duration_str == DurationStr(_stop_duration_candles, _stop_duration)

lookback_period_str == DurationStr(_lookback_period_candles, _lookback_period)

unlock_at_str == IF unlock_at # None THEN Some(Strftime(unlock_at[1])) ELSE None

\* int(x / 60) of a timedelta's total_seconds(): the quotient of
\* (days * 86400 + seconds) + microseconds / 10^6 by 60, truncated toward zero
TruncatedMinutes(td) ==
    LET s == td.days * 86400 + td.seconds
    IN  IF s >= 0 THEN s \div 60
        ELSE IF td.microseconds = 0 THEN -((-s) \div 60)
        ELSE -((-s - 1) \div 60)

\* the same quotient rounded down
FlooredMinutes(td) == (td.days * 86400 + td.seconds) \div 60

calculate_timespan_floor(start_time, end_time) ==
    LET d == DatetimeSub(end_time, start_time)
    IN  IF d.ok THEN Return(FlooredMinutes(d.val)) ELSE d

calculate_timespan(start_time, end_time) ==
    LET d == DatetimeSub(end_time, start_time)
    IN  IF d.ok THEN Return(TruncatedMinutes(d.val)) ELSE d

\* calculate_unlock_at: the new self.unlock_at and the returned minutes, or the
\* error raised before self.unlock_at is assigned
calculate_unlock_at_le(pc, now_time) ==
    LET parsed == Strptime(UnlockAtText(pc))
    IN  IF ~parsed.ok THEN parsed
        ELSE LET today == [parsed.val EXCEPT !.day = now_time.day, !.year = now_time.year,
                                             !.month = now_time.month]
                 rolled == IF ~TimeLess(now_time, today)
                           THEN ReplaceDay(today, now_time.day + 1)
                           ELSE Return(today)
             IN  IF ~rolled.ok THEN rolled
                 ELSE LET at == [rolled.val EXCEPT !.tzinfo = UTC]
                      IN  Return([unlock_at |-> at,
                                  result |-> calculate_timespan(now_time, at).val])

calculate_unlock_at(pc, now_time) ==
    LET parsed == Strptime(UnlockAtText(pc))
    IN  IF ~parsed.ok THEN parsed
        ELSE LET today == [parsed.val EXCEPT !.day = now_time.day, !.year = now_time.year,
                                             !.month = now_time.month]
                 rolled == IF TimeLess(today, now_time)
                           THEN ReplaceDay(today, now_time.day + 1)
                           ELSE Return(today)
             IN  IF ~rolled.ok THEN rolled
                 ELSE LET at == [rolled.val EXCEPT !.tzinfo = UTC]
                      IN  Return([unlock_at |-> at,
                                  result |-> calculate_timespan(now_time, at).val])

\* max() over a list of datetimes: the first greatest element; an empty list and
\* a comparison of a naive with an aware datetime raise
RECURSIVE MaxFrom(_, _, _)
MaxFrom(xs, i, cur) ==
    IF i > Len(xs) THEN Return(cur)
    ELSE LET g == DatetimeGt(xs[i], cur)
         IN  IF ~g.ok THEN g
             ELSE MaxFrom(xs, i + 1, IF g.val THEN xs[i] ELSE cur)

Max(xs) == IF Len(xs) = 0 THEN Raise("ValueError") ELSE MaxFrom(xs, 2, xs[1])

\* [trade.close_date for trade in trades if trade.close_date]
ClosedDates(trades) ==
    LET closed == SelectSeq(trades, LAMBDA t : t.close_date # None)
    IN  [i \in 1..Len(closed) |-> closed[i].close_date[1]]

calculate_lock_end_default(trades, stop_minutes) ==
    LET dates == ClosedDates(trades)
        max_date == IF Len(dates) = 0 THEN Return(Dt(2000, 1, 1, 0, 0, 0, 0, None))
                    ELSE Max(dates)
    IN  IF ~max_date.ok THEN max_date
        ELSE Return(DatetimeAddMinutes(
                        IF max_date.val.tzinfo = None
                        THEN [max_date.val EXCEPT !.tzinfo = UTC] ELSE max_date.val,
                        stop_minutes))

calculate_lock_end(trades, stop_minutes) ==
    LET max_date == Max(ClosedDates(trades))
    IN  IF ~max_date.ok THEN max_date
        ELSE Return(DatetimeAddMinutes(
                        IF max_date.val.tzinfo = None
                        THEN [max_date.val EXCEPT !.tzinfo = UTC] ELSE max_date.val,
                        stop_minutes))

----------------------------------------------------------------------------
(* The inputs the operations are run on *)

MaxCandles == 2

MaxWarnings == 2

MaxTrades == 3

LastYearOffset == 1

Opt(S) == {None} \cup {Some(x) : x \in S}

Text0900 == <<"0", "9", ":", "0", "0">>

Text2359 == <<"2", "3", ":", "5", "9">>

Text0000 == <<"0", "0", ":", "0", "0">>

Text905 == <<"9", ":", "0", "5">>

Text2400 == <<"2", "4", ":", "0", "0">>

\* protection configs of the life-cycle specification: every combination of the
\* duration keys, with a well-formed, a malformed or no unlock_at
Configs ==
    [stop_duration_candles : Opt(0..MaxCandles), stop_duration : Opt({45}),
     lookback_period_candles : Opt(0..MaxCandles), lookback_period : Opt({30}),
     unlock_at : Opt({Text0900, Text2359, Text2400})]

Timeframes == {"5m", "bogus"}

\* instants before and just after 09:00, at 23:59 on the last day of a month,
\* and in the last second of a year
Nows ==
    {Dt(2024, 1, 30, 8, 0, 0, 0, UTC), Dt(2024, 1, 30, 9, 0, 30, 0, UTC),
     Dt(2024, 1, 31, 23, 59, 0, 0, UTC), Dt(2024, 12, 31, 23, 59, 59, 500000, UTC)}

\* protection configs of the calendar specification: unlock_at alone
UnlockConfigs ==
    {[EmptyConfig EXCEPT !.unlock_at = Some(t)] :
        t \in {Text0000, Text0900, Text2359, Text905}}

\* every day of the years 2023 (365 days) to 2023 + LastYearOffset (2024 has 366)
Dates ==
    {ymd \in [year : 2023..(2023 + LastYearOffset), month : 1..12, day : 1..31] :
        ymd.day <= DaysInMonth(ymd.year, ymd.month)}

TimesOfDay ==
    {<<0, 0, 0, 0>>, <<0, 0, 0, 1>>, <<9, 0, 0, 0>>, <<9, 0, 59, 999999>>, <<9, 5, 0, 0>>,
     <<9, 5, 30, 0>>, <<23, 0, 0, 0>>, <<23, 59, 0, 0>>, <<23, 59, 59, 999999>>}

Calendar ==
    {Dt(ymd.year, ymd.month, ymd.day, t[1], t[2], t[3], t[4], UTC) :
        ymd \in Dates, t \in TimesOfDay}

\* timestamps of the helper specification: naive, UTC and UTC+01:00, around a
\* year's end and a leap day, whole minutes and fractions of a minute apart
Stamps ==
    {Dt(ymd[1], ymd[2], ymd[3], t[1], t[2], t[3], t[4], tz) :
        ymd \in {<<2023, 12, 31>>, <<2024, 1, 1>>, <<2024, 2, 29>>},
        t \in {<<0, 0, 0, 0>>, <<0, 1, 30, 0>>, <<1, 30, 0, 0>>, <<1, 30, 0, 1>>,
               <<23, 59, 59, 999999>>},
        tz \in {None, UTC, Some(60)}}

CloseDates ==
    {Dt(2024, 1, 31, 23, 50, 0, 0, None), Dt(2024, 1, 31, 12, 0, 0, 0, None),
     Dt(2024, 1, 31, 23, 50, 0, 0, UTC), Dt(2024, 2, 1, 0, 50, 0, 0, Some(60)),
     Dt(2024, 2, 29, 23, 59, 59, 5, Some(60))}

Trades(n) == UNION {[1..k -> [close_date : Opt(CloseDates)]] : k \in 0..n}

StopMinutes == {0, 30}

\* the instant the clock shows before the first call reads it
Epoch == Dt(2023, 1, 1, 0, 0, 0, 0, UTC)

\* the clock never runs backwards
NotEarlier(now, before) == ~DatetimeGt(before, now).val

----------------------------------------------------------------------------
(* The operations *)

Init ==
    /\ phase = "new"
    /\ _protection_config = EmptyConfig
    /\ timeframe = ""
    /\ _stop_duration_candles = None
    /\ _stop_duration = 0
    /\ _lookback_period_candles = None
    /\ _lookback_period = 0
    /\ unlock_at = None
    /\ clock = Epoch
    /\ warnings = 0
    /\ last = [op |-> "none"]

\* set_unlock_at_as_stop_duration on a protection whose config is pc, at now:
\* what it assigns, whether it warns, and how it ends
SetUnlockWritesLookback(pc, now) ==
    IF HasKey(pc, "unlock_at")
    THEN LET r == calculate_unlock_at(pc, now)
         IN  [ret |-> IF r.ok THEN Return(None) ELSE r,
              unlock_at |-> IF r.ok THEN Some(Some(r.val.unlock_at)) ELSE None,
              stop_duration |-> None,
              lookback_period |-> IF r.ok THEN Some(r.val.result) ELSE None,
              warned |-> 0, clock |-> Some(now)]
    ELSE [ret |-> Return(None), unlock_at |-> None, stop_duration |-> None,
          lookback_period |-> None, warned |-> 1, clock |-> None]

\* the same without the test of line 97
SetUnlockWithoutKeyTest(pc, now) ==
    LET r == calculate_unlock_at(pc, now)
    IN  [ret |-> IF r.ok THEN Return(None) ELSE r,
         unlock_at |-> IF r.ok THEN Some(Some(r.val.unlock_at)) ELSE None,
         stop_duration |-> IF r.ok THEN Some(r.val.result) ELSE None,
         lookback_period |-> None,
         warned |-> 0, clock |-> Some(now)]

set_unlock_at_as_stop_duration(pc, now) ==
    IF HasKey(pc, "unlock_at")
    THEN LET r == calculate_unlock_at(pc, now)
         IN  [ret |-> IF r.ok THEN Return(None) ELSE r,
              unlock_at |-> IF r.ok THEN Some(Some(r.val.unlock_at)) ELSE None,
              stop_duration |-> IF r.ok THEN Some(r.val.result) ELSE None,
              lookback_period |-> None,
              warned |-> 0, clock |-> Some(now)]
    ELSE [ret |-> Return(None), unlock_at |-> None, stop_duration |-> None,
          lookback_period |-> None, warned |-> 1, clock |-> None]

\* an assignment that may not have happened: the new value, or the old one
Assigned(opt, old) == IF opt = None THEN old ELSE opt[1]

\* __init__(config, protection_config) at the instant now
Construct(cfgs, tfs, nows) ==
    /\ phase = "new"
    /\ \E pc \in cfgs, tf \in tfs, now \in nows :
          LET tf_in_min == timeframe_to_minutes(tf)
          IN  /\ NotEarlier(now, clock)
              /\ _protection_config' = pc
              /\ timeframe' = tf
              /\ IF ~tf_in_min.ok
                 THEN /\ phase' = "failed"
                      /\ last' = [op |-> "__init__", ret |-> tf_in_min]
                      /\ UNCHANGED <<_stop_duration_candles, _stop_duration,
                                     _lookback_period_candles, _lookback_period,
                                     unlock_at, clock, warnings>>
                 ELSE LET stop == StopDuration(pc, tf_in_min.val)
                          look == LookbackPeriod(pc, tf_in_min.val)
                          set == set_unlock_at_as_stop_duration(pc, now)
                      IN  /\ _stop_duration_candles' = stop.candles
                          /\ _stop_duration' = Assigned(set.stop_duration, stop.minutes)
                          /\ _lookback_period_candles' = look.candles
                          /\ _lookback_period' = Assigned(set.lookback_period, look.minutes)
                          /\ unlock_at' = Assigned(set.unlock_at, None)
                          /\ clock' = Assigned(set.clock, clock)
                          /\ warnings' = warnings + set.warned
                          /\ phase' = IF set.ret.ok THEN "constructed" ELSE "failed"
                          /\ last' = [op |-> "__init__", ret |-> set.ret]

Object == <<phase, _protection_config, timeframe, _stop_duration_candles, _stop_duration,
            _lookback_period_candles, _lookback_period, unlock_at, clock, warnings>>

Name ==
    /\ phase = "constructed"
    /\ last' = [op |-> "name", ret |-> Return("IProtection")]
    /\ UNCHANGED Object

StopDurationStr ==
    /\ phase = "constructed"
    /\ last' = [op |-> "stop_duration_str", ret |-> Return(stop_duration_str)]
    /\ UNCHANGED Object

LookbackPeriodStr ==
    /\ phase = "constructed"
    /\ last' = [op |-> "lookback_period_str", ret |-> Return(lookback_period_str)]
    /\ UNCHANGED Object

UnlockAtStr ==
    /\ phase = "constructed"
    /\ last' = [op |-> "unlock_at_str", ret |-> Return(unlock_at_str)]
    /\ UNCHANGED Object

SetUnlockAtAsStopDuration(nows) ==
    /\ phase = "constructed"
    /\ \E now \in nows :
          LET set == set_unlock_at_as_stop_duration(_protection_config, now)
          IN  /\ NotEarlier(now, clock)
              /\ warnings + set.warned <= MaxWarnings
              /\ _stop_duration' = Assigned(set.stop_duration, _stop_duration)
              /\ _lookback_period' = Assigned(set.lookback_period, _lookback_period)
              /\ unlock_at' = Assigned(set.unlock_at, unlock_at)
              /\ clock' = Assigned(set.clock, clock)
              /\ warnings' = warnings + set.warned
              /\ last' = [op |-> "set_unlock_at_as_stop_duration", ret |-> set.ret]
    /\ UNCHANGED <<phase, _protection_config, timeframe, _stop_duration_candles,
                   _lookback_period_candles>>

CalculateUnlockAt(nows) ==
    /\ phase = "constructed"
    /\ \E now \in nows :
          LET r == calculate_unlock_at(_protection_config, now)
          IN  /\ NotEarlier(now, clock)
              /\ clock' = now
              /\ unlock_at' = IF r.ok THEN Some(r.val.unlock_at) ELSE unlock_at
              /\ last' = [op |-> "calculate_unlock_at",
                          ret |-> IF r.ok THEN Return(r.val.result) ELSE r]
    /\ UNCHANGED <<phase, _protection_config, timeframe, _stop_duration_candles,
                   _stop_duration, _lookback_period_candles, _lookback_period, warnings>>

CalculateLockEnd(tradeLists, minutes) ==
    /\ \E trades \in tradeLists, stop_minutes \in minutes :
          last' = [op |-> "calculate_lock_end", trades |-> trades,
                   stop_minutes |-> stop_minutes,
                   ret |-> calculate_lock_end(trades, stop_minutes)]
    /\ UNCHANGED Object

CalculateTimespan(stamps) ==
    /\ \E start_time \in stamps, end_time \in stamps :
          last' = [op |-> "calculate_timespan", start_time |-> start_time,
                   end_time |-> end_time,
                   ret |-> calculate_timespan(start_time, end_time)]
    /\ UNCHANGED Object

----------------------------------------------------------------------------
(* The specifications *)

\* the life cycle of one protection: construction, then any calls
Next ==
    \/ Construct(Configs, Timeframes, Nows)
    \/ Name
    \/ StopDurationStr
    \/ LookbackPeriodStr
    \/ UnlockAtStr
    \/ SetUnlockAtAsStopDuration(Nows)
    \/ CalculateUnlockAt(Nows)
    \/ CalculateLockEnd({<<>>, <<[close_date |-> Some(Dt(2024, 1, 30, 8, 0, 0, 0, None))]>>}, {30})
    \/ CalculateTimespan({Dt(2024, 1, 30, 8, 0, 0, 0, UTC), Dt(2024, 1, 30, 9, 0, 30, 0, UTC)})

Spec == Init /\ [][Next]_vars

\* construction with unlock_at at every instant of the calendar
NextCalendar == Construct(UnlockConfigs, {"1m"}, Calendar)

SpecCalendar == Init /\ [][NextCalendar]_vars

\* the static helpers on their own: one call on each input; they read no state,
\* so a call after another call adds nothing
NextHelpers ==
    \/ last.op = "none" /\ CalculateLockEnd(Trades(MaxTrades), StopMinutes)
    \/ last.op = "none" /\ CalculateTimespan(Stamps)

SpecHelpers == Init /\ [][NextHelpers]_vars

----------------------------------------------------------------------------
(* Properties *)

Constructed == phase = "constructed"

\* the state __init__ returned in, before any later call
JustConstructed == phase = "constructed" /\ last.op = "__init__"

TimeframeMinutes == timeframe_to_minutes(timeframe)

ConfiguredStopCandles == _protection_config.stop_duration_candles[1]

\* the stop duration the duration keys alone resolve to
ExpectedStopMinutes ==
    IF _protection_config.stop_duration_candles # None
    THEN ConfiguredStopCandles * TimeframeMinutes.val
    ELSE IF _protection_config.stop_duration # None
    THEN _protection_config.stop_duration[1]
    ELSE 60

\* C1 as stated: whenever the config contains stop_duration_candles = N, whatever
\* else it contains, the constructed protection has _stop_duration = N * T and a
\* stop_duration_str that contains N.
C1_CandlesDecideStopDuration ==
    (JustConstructed /\ _protection_config.stop_duration_candles # None)
        => /\ _stop_duration = ConfiguredStopCandles * TimeframeMinutes.val
           /\ Contains(stop_duration_str, Str(ConfiguredStopCandles))

\* C1 amended: when the config contains stop_duration_candles = N and no unlock_at,
\* the protection has _stop_duration = N * T and a stop_duration_str that contains
\* N, from construction on (stop_duration, when also present, is ignored).
C1_CandlesDecideStopDurationWithoutUnlockAt ==
    (Constructed /\ _protection_config.stop_duration_candles # None
                 /\ _protection_config.unlock_at = None)
        => /\ _stop_duration = ConfiguredStopCandles * TimeframeMinutes.val
           /\ Contains(stop_duration_str, Str(ConfiguredStopCandles))

\* two candles of five minutes configured beside stop_duration = 45: ten minutes
C1_Witness ==
    /\ JustConstructed
    /\ _protection_config.stop_duration_candles = Some(2)
    /\ _protection_config.stop_duration = Some(45)
    /\ _protection_config.unlock_at = None
    /\ timeframe = "5m"
    /\ _stop_duration = 10
    /\ stop_duration_str = <<"2">> \o Candles

UnlockHour == Strptime(_protection_config.unlock_at[1]).val.hour

UnlockMinute == Strptime(_protection_config.unlock_at[1]).val.minute

\* the day after the day of dt, by the calendar
NextDay(dt) ==
    IF dt.day < DaysInMonth(dt.year, dt.month) THEN [dt EXCEPT !.day = dt.day + 1]
    ELSE IF dt.month < 12 THEN [dt EXCEPT !.day = 1, !.month = dt.month + 1]
    ELSE [dt EXCEPT !.day = 1, !.month = 1, !.year = dt.year + 1]

\* HH:MM is strictly earlier than the time of day of the instant the clock showed
UnlockTimePassed ==
    \/ UnlockHour < clock.hour
    \/ UnlockHour = clock.hour /\ UnlockMinute < clock.minute
    \/ UnlockHour = clock.hour /\ UnlockMinute = clock.minute
       /\ (clock.second > 0 \/ clock.microsecond > 0)

ExpectedUnlockAt ==
    LET today == [clock EXCEPT !.hour = UnlockHour, !.minute = UnlockMinute,
                               !.second = 0, !.microsecond = 0]
    IN  IF UnlockTimePassed THEN NextDay(today) ELSE today

\* C2: with a well-formed unlock_at "HH:MM", at every instant of every day,
\* calculate_unlock_at completes and sets unlock_at to HH:MM UTC of the current day
\* when HH:MM is not strictly earlier than the current time of day, and of the next
\* calendar day when it is.
C2_UnlockAtIsNextOccurrence ==
    (phase # "new" /\ last.op = "__init__")
        => /\ last.ret.ok
           /\ unlock_at = Some(ExpectedUnlockAt)

\* the UTC instant of a datetime whose missing zone is read as UTC
ReadAsUtc(dt) == IF dt.tzinfo = None THEN [dt EXCEPT !.tzinfo = UTC] ELSE dt

SameInstant(a, b) ==
    DatetimeSub(a, b).val = [days |-> 0, seconds |-> 0, microseconds |-> 0]

ClosedTrades(trades) == {i \in 1..Len(trades) : trades[i].close_date # None}

\* the latest of the close dates, whatever the order of the trades
LatestClose(trades) ==
    LET dates == {ReadAsUtc(trades[i].close_date[1]) : i \in ClosedTrades(trades)}
    IN  CHOOSE d \in dates : \A e \in dates : ~DatetimeGt(e, d).val

\* C3: when at least one trade has a close date, calculate_lock_end returns the
\* latest close date, a zoneless one read as UTC, plus stop_minutes minutes,
\* whatever the trades without a close date and the order of the trades.
C3_LockEndIsLatestClosePlusStop ==
    (last.op = "calculate_lock_end" /\ ClosedTrades(last.trades) # {})
        => /\ last.ret.ok
           /\ SameInstant(last.ret.val,
                          DatetimeAddMinutes(LatestClose(last.trades), last.stop_minutes))

\* the seconds, and the microseconds beyond them, from start_time to end_time
SpanSeconds ==
    LET d == DatetimeSub(last.end_time, last.start_time).val
    IN  d.days * 86400 + d.seconds

SpanMicroseconds == DatetimeSub(last.end_time, last.start_time).val.microseconds

\* m is the quotient of s + us / 10^6 seconds by 60, truncated toward zero
IsTruncatedQuotient(m, s, us) ==
    IF s >= 0
    THEN m >= 0 /\ 60 * m <= s /\ s < 60 * (m + 1)
    ELSE /\ m <= 0
         /\ IF us = 0 THEN s <= 60 * m /\ 60 * (m - 1) < s
                      ELSE s + 1 <= 60 * m /\ 60 * (m - 1) <= s

Rendered(n, singular, plural_form) ==
    Str(n) \o (IF n = 1 THEN singular ELSE plural_form)

\* C5: the display is in candles exactly when the config was: "<N> candle(s)" when
\* stop_duration_candles = N was configured, N = 0 included, and "<M> minute(s)" of
\* _stop_duration = M when it was not; the same for the lookback period.
C5_DisplayFollowsConfig ==
    Constructed
        => /\ stop_duration_str =
                IF _protection_config.stop_duration_candles # None
                THEN Rendered(ConfiguredStopCandles, Candle, Candles)
                ELSE Rendered(_stop_duration, Minute, Minutes)
           /\ lookback_period_str =
                IF _protection_config.lookback_period_candles # None
                THEN Rendered(_protection_config.lookback_period_candles[1], Candle, Candles)
                ELSE Rendered(_lookback_period, Minute, Minutes)

WindowFields ==
    <<unlock_at, _stop_duration, _stop_duration_candles, _lookback_period,
      _lookback_period_candles>>

\* C6 as stated: once the constructor has returned, no call changes unlock_at,
\* _stop_duration or the lookback fields.
C6_NoCallChangesWindow == [][Constructed => UNCHANGED WindowFields]_vars

\* C6 amended: once the constructor has returned, the display accessors, name,
\* calculate_lock_end and calculate_timespan change none of unlock_at,
\* _stop_duration and the lookback fields, and no call at all changes the lookback
\* fields or the candle counts; calculate_unlock_at rewrites unlock_at alone, and
\* set_unlock_at_as_stop_duration rewrites unlock_at and _stop_duration alone, both
\* only when unlock_at is configured.
C6_OnlyUnlockCallsChangeWindow ==
    [][Constructed =>
          /\ UNCHANGED <<_lookback_period, _lookback_period_candles, _stop_duration_candles>>
          /\ last'.op # "set_unlock_at_as_stop_duration" => UNCHANGED _stop_duration
          /\ last'.op \notin {"set_unlock_at_as_stop_duration", "calculate_unlock_at"}
                => UNCHANGED unlock_at
          /\ _protection_config.unlock_at = None => UNCHANGED WindowFields]_vars

\* set_unlock_at_as_stop_duration, called again later, has moved the stop duration
\* and left the lookback period of two candles alone
C6_Witness ==
    /\ Constructed
    /\ last.op = "set_unlock_at_as_stop_duration" /\ last.ret.ok
    /\ _protection_config.unlock_at = Some(Text2359)
    /\ _protection_config.lookback_period_candles = Some(2)
    /\ clock = Dt(2024, 1, 31, 23, 59, 0, 0, UTC)
    /\ _stop_duration = 0
    /\ _lookback_period = 10

\* C7: without an unlock_at key and with a valid timeframe, construction completes,
\* warns, leaves unlock_at absent (unlock_at_str returns None) and leaves
\* _stop_duration at N * T for stop_duration_candles = N, else at the configured
\* stop_duration, else at 60.
C7_WithoutUnlockAt ==
    (phase # "new" /\ _protection_config.unlock_at = None /\ TimeframeMinutes.ok)
        => /\ Constructed
           /\ warnings >= 1
           /\ (last.op = "__init__" => last.ret.ok /\ warnings = 1)
           /\ unlock_at = None
           /\ unlock_at_str = None
           /\ _stop_duration = ExpectedStopMinutes

\* an empty protection config: sixty minutes, one warning
C7_Witness ==
    /\ JustConstructed
    /\ _protection_config = EmptyConfig
    /\ _stop_duration = 60
    /\ warnings = 1
    /\ unlock_at = None

NoTradeClosed == \A i \in 1..Len(last.trades) : last.trades[i].close_date = None

\* C8: calculate_lock_end on an empty trade sequence, or on one in which no trade
\* has a close date, raises and returns no timestamp.
C8_NoClosedTradeRaises ==
    (last.op = "calculate_lock_end" /\ NoTradeClosed) => ~last.ret.ok

\* two open trades
C8_Witness ==
    /\ last.op = "calculate_lock_end"
    /\ Len(last.trades) = 2
    /\ NoTradeClosed
    /\ last.ret = Raise("ValueError")

\* C9: the lookback period follows the rule of the stop duration on its own keys:
\* N * T minutes and N candles for lookback_period_candles = N, else the configured
\* lookback_period, else 60, with no candle count; the stop-duration keys and
\* unlock_at have no part in it.
C9_LookbackResolvedFromItsOwnKeys ==
    (phase # "new" /\ TimeframeMinutes.ok)
        => IF _protection_config.lookback_period_candles # None
           THEN /\ _lookback_period_candles = _protection_config.lookback_period_candles
                /\ _lookback_period =
                      _protection_config.lookback_period_candles[1] * TimeframeMinutes.val
           ELSE /\ _lookback_period_candles = None
                /\ _lookback_period =
                      IF _protection_config.lookback_period # None
                      THEN _protection_config.lookback_period[1] ELSE 60

\* unlock_at has replaced a stop duration of 45 minutes by 60, beside a lookback
\* period left at its default
C9_Witness ==
    /\ JustConstructed
    /\ _protection_config.unlock_at = Some(Text0900)
    /\ _protection_config.stop_duration = Some(45)
    /\ _protection_config.stop_duration_candles = None
    /\ _protection_config.lookback_period_candles = None
    /\ _protection_config.lookback_period = None
    /\ clock = Dt(2024, 1, 30, 8, 0, 0, 0, UTC)
    /\ _stop_duration = 60
    /\ _lookback_period = 60

\* the seconds from the instant the clock showed to unlock_at
SecondsToUnlock ==
    LET d == DatetimeSub(unlock_at[1], clock).val
    IN  d.days * 86400 + d.seconds

\* C10: when unlock_at is configured and construction completes, unlock_at is not
\* earlier than the instant now read from the clock and less than 24 hours after
\* it, and _stop_duration is the whole minutes between them: in 0..1439, 0 when
\* the unlock time is less than a minute ahead, 1439 when its minute began less
\* than a minute before now.
C10_StopDurationWithinADay ==
    (JustConstructed /\ _protection_config.unlock_at # None)
        => /\ unlock_at # None
           /\ ~DatetimeGt(clock, unlock_at[1]).val
           /\ DatetimeSub(unlock_at[1], clock).val.days = 0
           /\ _stop_duration \in 0..1439
           /\ 60 * _stop_duration <= SecondsToUnlock
           /\ SecondsToUnlock < 60 * (_stop_duration + 1)
           /\ (SecondsToUnlock < 60 => _stop_duration = 0)
           /\ (UnlockHour = clock.hour /\ UnlockMinute = clock.minute
                 /\ (clock.second > 0 \/ clock.microsecond > 0)
                 => _stop_duration = 1439)

\* one microsecond after midnight on 30 December, unlock_at "00:00": 1439 minutes,
\* to midnight of 31 December
C10_Witness ==
    /\ JustConstructed
    /\ _protection_config.unlock_at = Some(Text0000)
    /\ clock = Dt(2023, 12, 30, 0, 0, 0, 1, UTC)
    /\ unlock_at = Some(Dt(2023, 12, 31, 0, 0, 0, 0, UTC))
    /\ _stop_duration = 1439

\* C2 away from the failure: construction fails exactly when the unlock time has
\* passed on the last day of a month, and otherwise sets unlock_at as C2 states.
C2_FailsOnlyOnLastDayOfMonth ==
    (phase # "new" /\ last.op = "__init__" /\ _protection_config.unlock_at # None
        /\ TimeframeMinutes.ok /\ Strptime(_protection_config.unlock_at[1]).ok)
        => IF UnlockTimePassed /\ clock.day = DaysInMonth(clock.year, clock.month)
           THEN last.ret = Raise("ValueError") /\ unlock_at = None
           ELSE last.ret.ok /\ unlock_at = Some(ExpectedUnlockAt)

\* the close dates all carry a zone, or none does
SameAwareness(trades) ==
    \A i, j \in ClosedTrades(trades) :
        trades[i].close_date[1].tzinfo = None <=> trades[j].close_date[1].tzinfo = None

\* C3 away from the failure: calculate_lock_end raises exactly when zoneless and
\* zoned close dates are mixed, and otherwise returns what C3 states.
C3_FailsOnlyOnMixedZones ==
    (last.op = "calculate_lock_end" /\ ClosedTrades(last.trades) # {})
        => IF SameAwareness(last.trades)
           THEN /\ last.ret.ok
                /\ SameInstant(last.ret.val,
                               DatetimeAddMinutes(LatestClose(last.trades), last.stop_minutes))
           ELSE last.ret = Raise("TypeError")

\* C5 away from the failure: the display is as C5 states unless the configured
\* candle count is 0, and a configured count of 0 is displayed in minutes.
C5_FailsOnlyOnZeroCandles ==
    Constructed
        => /\ stop_duration_str =
                IF _protection_config.stop_duration_candles \notin {None, Some(0)}
                THEN Rendered(ConfiguredStopCandles, Candle, Candles)
                ELSE Rendered(_stop_duration, Minute, Minutes)
           /\ lookback_period_str =
                IF _protection_config.lookback_period_candles \notin {None, Some(0)}
                THEN Rendered(_protection_config.lookback_period_candles[1], Candle, Candles)
                ELSE Rendered(_lookback_period, Minute, Minutes)

====
